---- MODULE Spec2Model ----
(***************************************************************************)
(* Model of the Shinobi integration's entity reconciliation                *)
(* (core/managers/entity_manager.py, EntityManager), of the polling cycle  *)
(* and the life cycle of its coordinator (core/managers/home_assistant.py, *)
(* HomeAssistantManager), of the entry setup (__init__.py) and of the      *)
(* camera's still image (camera.py).                                       *)
(*                                                                         *)
(* The entities mapping is a Python dict: `entities` is the mapping and    *)
(* `order` its insertion order, which is the order `for unique_id in       *)
(* self.entities` visits the keys in.  EntityData objects are mutated in   *)
(* place, so an assignment to a field of a record that is already in the   *)
(* mapping is visible in the mapping whether or not the record is stored   *)
(* again afterwards.                                                       *)
(*                                                                         *)
(* Not modelled: the `disabled` flag (_handle_disabled_entity) and the     *)
(* restored-state lookup (_handle_restored_entity); neither reads or       *)
(* writes a record's status, state, attributes, device name or details.    *)
(***************************************************************************)
EXTENDS Integers, Sequences, FiniteSets, TLC

VARIABLES
    entities,       \* EntityManager.entities: unique id -> EntityData
    order,          \* insertion order of the keys of EntityManager.entities
    registry,       \* unique ids that have an entry in the host entity registry
    built,          \* unique ids whose current record had a component built by the domain initializer
    handed,         \* unique id -> how often a component of the current record went to async_add_devices
    lastOp,         \* the operation that ran last: "init", "set_entity" or "update"
    lastCall,       \* the arguments of the set_entity call, while it is the last operation
    lastPass,       \* what happened in the _async_update pass, while it is the last operation
    kept,           \* unique ids of records whose most recent set_entity call carried no True destructor
    is_initialized, \* HomeAssistantManager._is_initialized
    is_updating,    \* HomeAssistantManager._is_updating
    update_lock,    \* HomeAssistantManager._update_lock
    refreshing,     \* async_update invocations suspended in `await async_update_data_providers()`
    dataVersion,    \* number of refreshes of the data providers that completed
    pendingPasses,  \* _async_update tasks created by entity_manager.update() that have not run yet
    pendingDispatch, \* dispatch_all tasks created by update() that have not run yet
    signalled,      \* platforms a dispatch_all task has sent its signal to
    cycle,          \* what the current (or last) async_update invocation did
    entry,          \* HomeAssistantManager._entry
    heartbeat_interval, \* HomeAssistantManager._heartbeat_interval (None: not configured)
    loadTask,       \* the _async_load_platforms task: "none", "running", "done" or "failed"
    forwarded,      \* platforms whose entry setup _async_load_platforms has forwarded
    services,       \* register_services was called
    handlers,       \* HomeAssistantManager._async_track_time_handlers (the kind of each timer)
    activeTimers,   \* timers of each kind that are registered with the host and not cancelled
    registered,     \* timers of each kind that were ever registered
    providers,      \* data providers: "idle", "running" or "stopped"
    unloaded,       \* platforms whose entry unload was forwarded
    teardown,       \* position of async_unload / async_remove
    storeKey,       \* key of the data in the store
    initOutcome,    \* how async_init ended: "none" while it has not run
    haOp,           \* the life-cycle operation that ran last
    hassData,       \* entry ids that have a coordinator in hass.data[DOMAIN]
    setupResult,    \* entry id -> what async_setup_entry returned ("none": not called)
    coordInitialized, \* entry ids whose coordinator.initialize() has completed
    startListeners, \* entry id -> subscriptions to the host start event not yet fired
    hassRunning,    \* hass.is_running
    lastSetup,      \* the async_setup_entry call, while it is the last operation of the setup
    limit_refetch,  \* ShinobiCamera._limit_refetch
    last_url,       \* ShinobiCamera._last_url
    last_image,     \* ShinobiCamera._last_image (0: None, n: the body of request n)
    requests,       \* HTTP requests the camera has issued
    fetchedUrl,     \* the URL the template rendered to at the last successful fetch
    camCall         \* the last async_camera_image call

emVars == <<entities, order, registry, built, handed, lastOp, lastCall, lastPass, kept>>

haVars == <<is_initialized, is_updating, update_lock, refreshing, dataVersion,
            pendingPasses, pendingDispatch, signalled, cycle>>

lcVars == <<entry, heartbeat_interval, loadTask, forwarded, services, handlers,
            activeTimers, registered, providers, unloaded, teardown, storeKey,
            initOutcome, haOp>>

setupVars == <<hassData, setupResult, coordInitialized, startListeners, hassRunning,
               lastSetup>>

camVars == <<limit_refetch, last_url, last_image, requests, fetchedUrl, camCall>>

appVars == <<hassData, setupResult, coordInitialized, startListeners, hassRunning,
             lastSetup,
             limit_refetch, last_url, last_image, requests, fetchedUrl, camCall>>

vars == <<entities, order, registry, built, handed, lastOp, lastCall, lastPass, kept,
          is_initialized, is_updating, update_lock, refreshing, dataVersion,
          pendingPasses, pendingDispatch, signalled, cycle,
          entry, heartbeat_interval, loadTask, forwarded, services, handlers,
          activeTimers, registered, providers, unloaded, teardown, storeKey,
          initOutcome, haOp,
          hassData, setupResult, coordInitialized, startListeners, hassRunning,
          lastSetup,
          limit_refetch, last_url, last_image, requests, fetchedUrl, camCall>>

----------------------------------------------------------------------------
(* Values *)

None == "None"

CREATED == "CREATED"
UPDATED == "UPDATED"
READY == "READY"
DELETED == "DELETED"

Keys == {"k1", "k2"}

\* Domains in the order set_domain_data registered them
\* (domain_component_manager is a dict, visited in insertion order).
DomainOrder == <<"camera", "select">>

Domains == {DomainOrder[i] : i \in 1..Len(DomainOrder)}

\* The domain the caller passes with each unique id: one entity per platform.
KeyDomain == [k \in Keys |-> IF k = "k1" THEN "camera" ELSE "select"]

\* The data of one set_entity call.  The calls differ from BaseData in one
\* field each, so that every comparison of _compare_data is decisive for
\* some pair of calls; details may be omitted (None).
BaseData == [state |-> "on", attributes |-> "a1", device_name |-> "dev1", details |-> "x1"]

DataValues ==
    { BaseData,
      [BaseData EXCEPT !.state = "off"],
      [BaseData EXCEPT !.attributes = "a2"],
      [BaseData EXCEPT !.device_name = "dev2"],
      [BaseData EXCEPT !.details = "x2"],
      [BaseData EXCEPT !.details = None] }

\* EntityDescription: a dataclass compared by value; key is the unique id.
Descriptions == [key : Keys, name : {"n1", "n2"}]

\* The value None where an EntityDescription is expected.
NoDescription == [key |-> None, name |-> None]

\* The calls the callers make.  The camera entity k1 is set with every data
\* value and description; the select entity k2 changes in state only, which
\* is enough to have two records of any two statuses in the mapping.
CallData ==
    [k \in Keys |-> IF k = "k1" THEN DataValues
                                ELSE {BaseData, [BaseData EXCEPT !.state = "off"]}]

CallDescriptions ==
    {e \in Descriptions : e.key = "k1" \/ e.name = "n1"}

\* The destructors argument: None (the default) or a list of booleans.
DestructorLists ==
    { [isNone |-> TRUE, items |-> <<>>],
      [isNone |-> FALSE, items |-> <<FALSE>>],
      [isNone |-> FALSE, items |-> <<FALSE, TRUE>>] }

\* `destructors is not None and True in destructors`
HasTrueDestructor(destructors) ==
    /\ ~destructors.isNone
    /\ \E i \in 1..Len(destructors.items) : destructors.items[i] = TRUE

\* The element of a one-element set; `The({e(x) : x \in {v}})` is e(v).
The(S) == CHOOSE x \in S : TRUE

----------------------------------------------------------------------------
(* EntityData and comparison *)

\* EntityData(entry_id, entity_description): a fresh record.
NewEntityData(entity_description) ==
    [ status |-> CREATED,
      state |-> None,
      attributes |-> "{}",
      device_name |-> None,
      details |-> "{}",
      domain |-> None,
      entity_description |-> entity_description ]

\* _compare_data without its device-name comparison.
CompareDataSkipsDeviceName(entity, state, attributes, device_name, entity_description, details) ==
    \/ entity.state # state
    \/ entity.attributes # attributes
    \/ (entity_description # NoDescription /\ entity.entity_description # entity_description)
    \/ (details # None /\ entity.details # details)

\* _compare_data: TRUE iff at least one message was appended.
\* entity_description and details take part only when they are not None;
\* the call for a new record passes neither.
CompareData(entity, state, attributes, device_name, entity_description, details) ==
    \/ entity.state # state
    \/ entity.attributes # attributes
    \/ entity.device_name # device_name
    \/ (entity_description # NoDescription /\ entity.entity_description # entity_description)
    \/ (details # None /\ entity.details # details)

----------------------------------------------------------------------------
(* EntityManager.set_entity *)

\* The record set_entity works on after its create-or-compare step
\* (lines 230-243): a fresh CREATED record with the given domain for a new
\* key, the stored record (UPDATED if _compare_data reported a change) for
\* an existing one.
ComparedEntity(ents, domain, data, entity_description) ==
    LET key == entity_description.key IN
    IF key \notin DOMAIN ents
    THEN [NewEntityData(entity_description) EXCEPT !.status = CREATED, !.domain = domain]
    ELSE IF CompareData(ents[key], data.state, data.attributes, data.device_name,
                        entity_description, data.details)
         THEN [ents[key] EXCEPT !.status = UPDATED]
         ELSE ents[key]

\* Lines 245-249 with the assignments made to UPDATED records only.
AssignedEntityUpdatedOnly(entity, data) ==
    IF entity.status = UPDATED
    THEN [entity EXCEPT !.state = data.state,
                        !.attributes = data.attributes,
                        !.device_name = data.device_name,
                        !.details = data.details]
    ELSE entity

\* Lines 245-249: a CREATED or UPDATED record takes the given state,
\* attributes, device name and details.
AssignedEntity(entity, data) ==
    IF entity.status \in {CREATED, UPDATED}
    THEN [entity EXCEPT !.state = data.state,
                        !.attributes = data.attributes,
                        !.device_name = data.device_name,
                        !.details = data.details]
    ELSE entity

\* Lines 251-256: with a True destructor a CREATED record is dropped
\* (the local variable becomes None), any other is marked DELETED.
DroppedByDestructor(entity, destructors) ==
    HasTrueDestructor(destructors) /\ entity.status = CREATED

DestructedEntity(entity, destructors) ==
    IF HasTrueDestructor(destructors) /\ entity.status # CREATED
    THEN [entity EXCEPT !.status = DELETED]
    ELSE entity

\* The entities mapping after set_entity.  A record that is already in the
\* mapping is the object the assignments above were made to, so it keeps
\* them also when the local variable was set to None and nothing is stored.
SetEntityResult(ents, domain, data, entity_description, destructors) ==
    LET key == entity_description.key
        assigned == AssignedEntity(ComparedEntity(ents, domain, data, entity_description), data)
    IN  IF DroppedByDestructor(assigned, destructors)
        THEN IF key \in DOMAIN ents
             THEN [ents EXCEPT ![key] = assigned]
             ELSE ents
        ELSE (key :> DestructedEntity(assigned, destructors)) @@ ents

\* Insertion order of the dict after set_entity: a new key goes last.
SetEntityOrder(ents, ord, newEnts, key) ==
    IF key \notin DOMAIN ents /\ key \in DOMAIN newEnts THEN Append(ord, key) ELSE ord

----------------------------------------------------------------------------
(* EntityManager._async_add_components *)

\* First loop (lines 80-100), from position i of the dict's keys: every
\* CREATED record gets a component from its domain's initializer and
\* becomes READY at once.  The initializer raises for the keys in failInit;
\* the exception leaves the loop with the records before it already READY.
RECURSIVE BuildComponents(_, _, _, _, _, _)
BuildComponents(ents, ord, i, blt, components, failInit) ==
    IF i > Len(ord)
    THEN [entities |-> ents, built |-> blt, components |-> components, raised |-> FALSE]
    ELSE LET unique_id == ord[i] IN
         IF ents[unique_id].status # CREATED
         THEN BuildComponents(ents, ord, i + 1, blt, components, failInit)
         ELSE IF unique_id \in failInit
              THEN [entities |-> ents, built |-> blt, components |-> components, raised |-> TRUE]
              ELSE BuildComponents([ents EXCEPT ![unique_id].status = READY], ord, i + 1,
                                   blt \cup {unique_id}, Append(components, unique_id), failInit)

\* components.get(domain, []): the components built for one domain.
DomainComponents(ents, components, domain) ==
    {components[j] : j \in {n \in 1..Len(components) : ents[components[n]].domain = domain}}

\* Second loop (lines 102-111), from position d of the registered domains:
\* each domain's new components go to its async_add_devices callback, which
\* raises for the domains in failAdd.  The host enters what it is handed in
\* its entity registry.
RECURSIVE HandComponents(_, _, _, _, _, _)
HandComponents(ents, components, d, hnd, reg, failAdd) ==
    IF d > Len(DomainOrder)
    THEN [handed |-> hnd, registry |-> reg, raised |-> FALSE]
    ELSE LET domain == DomainOrder[d]
             domain_components == DomainComponents(ents, components, domain)
         IN  IF domain_components = {}
             THEN HandComponents(ents, components, d + 1, hnd, reg, failAdd)
             ELSE IF domain \in failAdd
                  THEN [handed |-> hnd, registry |-> reg, raised |-> TRUE]
                  ELSE HandComponents(ents, components, d + 1,
                                      [k \in Keys |-> IF k \in domain_components THEN hnd[k] + 1 ELSE hnd[k]],
                                      reg \cup domain_components, failAdd)

\* _async_add_components without its try/except: what a loop raises escapes.
AddComponentsUncaught(ents, ord, blt, hnd, reg, failInit, failAdd) ==
    The({ The({ [ entities |-> b.entities, built |-> b.built,
                  handed |-> h.handed, registry |-> h.registry,
                  raised |-> h.raised, escaped |-> h.raised,
                  log |-> <<>> ]
                : h \in { IF b.raised
                          THEN [handed |-> hnd, registry |-> reg, raised |-> TRUE]
                          ELSE HandComponents(b.entities, b.components, 1, hnd, reg, failAdd) } })
          : b \in { BuildComponents(ents, ord, 1, blt, <<>>, failInit) } })

\* _async_add_components: both loops inside one try; `except Exception`
\* logs and returns, so nothing escapes to the caller.
AddComponents(ents, ord, blt, hnd, reg, failInit, failAdd) ==
    The({ The({ [ entities |-> b.entities, built |-> b.built,
                  handed |-> h.handed, registry |-> h.registry,
                  raised |-> h.raised, escaped |-> FALSE,
                  log |-> IF h.raised THEN <<"Failed to add component">> ELSE <<>> ]
                : h \in { IF b.raised
                          THEN [handed |-> hnd, registry |-> reg, raised |-> TRUE]
                          ELSE HandComponents(b.entities, b.components, 1, hnd, reg, failAdd) } })
          : b \in { BuildComponents(ents, ord, 1, blt, <<>>, failInit) } })

----------------------------------------------------------------------------
(* EntityManager._async_delete_components and _async_update *)

\* The loop of lines 125-142 over the dict's keys, at position i of an
\* iterator created when the dict had `used` keys.  Each step of a dict
\* iterator first compares the dict's size with the size at creation and
\* raises RuntimeError when they differ, so the step after a
\* `del self.entities[...]` raises.
RECURSIVE DeleteLoop(_, _, _, _, _, _)
DeleteLoop(ents, ord, i, used, reg, removed) ==
    IF Len(ord) # used
    THEN [entities |-> ents, order |-> ord, registry |-> reg, removed |-> removed, raised |-> TRUE]
    ELSE IF i > Len(ord)
    THEN [entities |-> ents, order |-> ord, registry |-> reg, removed |-> removed, raised |-> FALSE]
    ELSE LET unique_id == ord[i] IN
         IF ents[unique_id].status = DELETED
         THEN \* the registry entry, if any, is removed; entity.id is unique_id
              DeleteLoop([k \in DOMAIN ents \ {unique_id} |-> ents[k]],
                         SelectSeq(ord, LAMBDA k : k # unique_id),
                         i + 1, used, reg \ {unique_id}, removed \cup {unique_id})
         ELSE DeleteLoop(ents, ord, i + 1, used, reg, removed)

\* _async_delete_components has no try of its own: what the loop raises
\* escapes to _async_update.
DeleteComponents(ents, ord, reg) ==
    The({ [ entities |-> r.entities, order |-> r.order, registry |-> r.registry,
            removed |-> r.removed, raised |-> r.raised, escaped |-> r.raised ]
          : r \in { DeleteLoop(ents, ord, 1, Len(ord), reg, {}) } })

\* _async_update: add, then delete, inside one try whose `except Exception`
\* logs.  An exception that escapes the add step skips the delete step.
AsyncUpdate(ents, ord, blt, hnd, reg, failInit, failAdd) ==
    The({ The({ [ entities |-> d.entities, order |-> d.order, registry |-> d.registry,
                  built |-> a.built \ d.removed,
                  handed |-> [k \in Keys |-> IF k \in d.removed THEN 0 ELSE a.handed[k]],
                  addRaised |-> a.raised,
                  deleteRan |-> ~a.escaped,
                  deleteRaised |-> d.raised,
                  propagated |-> FALSE,
                  log |-> a.log \o (IF a.escaped \/ d.escaped
                                    THEN <<"Failed to update">> ELSE <<>>) ]
                : d \in { IF a.escaped
                          THEN [ entities |-> a.entities, order |-> ord,
                                 registry |-> a.registry, removed |-> {},
                                 raised |-> FALSE, escaped |-> FALSE ]
                          ELSE DeleteComponents(a.entities, ord, a.registry) } })
          : a \in { AddComponents(ents, ord, blt, hnd, reg, failInit, failAdd) } })

----------------------------------------------------------------------------
(* Operations of the entity manager *)

NoCall ==
    [ domain |-> None, data |-> BaseData, entity_description |-> NoDescription,
      destructor |-> FALSE, existed |-> FALSE, modified |-> FALSE ]

NoPass ==
    [ addRaised |-> FALSE, deleteRan |-> FALSE, deleteRaised |-> FALSE,
      propagated |-> FALSE, log |-> <<>>, deletedAtStart |-> {} ]

InitEntityManager ==
    /\ entities = <<>>
    /\ order = <<>>
    /\ registry = {}
    /\ built = {}
    /\ handed = [k \in Keys |-> 0]
    /\ lastOp = "init"
    /\ lastCall = NoCall
    /\ lastPass = NoPass
    /\ kept = {}

\* One call of set_entity.
SetEntityCall(domain, data, entity_description, destructors) ==
    LET key == entity_description.key IN
    \E newEnts \in {SetEntityResult(entities, domain, data, entity_description, destructors)} :
        /\ entities' = newEnts
        /\ order' = SetEntityOrder(entities, order, newEnts, key)
        /\ lastOp' = "set_entity"
        /\ lastCall' = [ domain |-> domain, data |-> data,
                         entity_description |-> entity_description,
                         destructor |-> HasTrueDestructor(destructors),
                         existed |-> key \in DOMAIN entities,
                         modified |-> /\ key \in DOMAIN entities
                                      /\ CompareData(entities[key], data.state, data.attributes,
                                                     data.device_name, entity_description,
                                                     data.details) ]
        /\ lastPass' = NoPass
        /\ kept' = IF HasTrueDestructor(destructors)
                   THEN kept \ {key}
                   ELSE (kept \cup {key}) \cap DOMAIN newEnts
        /\ UNCHANGED <<registry, built, handed>>

\* One pass of _async_update.  The pass has no await that suspends, so it
\* runs to its end without another operation in between.
RunUpdate(failInit, failAdd) ==
    \E r \in {AsyncUpdate(entities, order, built, handed, registry, failInit, failAdd)} :
        /\ entities' = r.entities
        /\ order' = r.order
        /\ registry' = r.registry
        /\ built' = r.built
        /\ handed' = r.handed
        /\ lastOp' = "update"
        /\ lastCall' = NoCall
        /\ lastPass' = [ addRaised |-> r.addRaised, deleteRan |-> r.deleteRan,
                         deleteRaised |-> r.deleteRaised, propagated |-> r.propagated,
                         log |-> r.log,
                         deletedAtStart |-> {k \in DOMAIN entities : entities[k].status = DELETED} ]
        /\ kept' = kept \cap DOMAIN r.entities

----------------------------------------------------------------------------
(* HomeAssistantManager: the polling cycle *)

\* Bounds of the exploration: refreshes that complete, and tasks that wait.
MaxRefresh == 3
MaxTasks == 2

\* PLATFORMS, in the order dispatch_all visits them.
Platforms == Domains

\* The steps of one cycle, in the order the code takes them.
FullCycle ==
    <<"refresh", "load_devices", "load_entities", "schedule_update", "schedule_dispatch">>

\* cycle: the invocation that last passed the guards (passed, done, raised,
\* the steps it took, the refresh it made and the refresh whose data
\* load_entities read), and whether the latest invocation returned at a guard.
NoCycle ==
    [ passed |-> FALSE, done |-> FALSE, raised |-> FALSE, log |-> <<>>,
      refreshed |-> 0, loaded |-> 0, rejected |-> FALSE ]

InitHomeAssistant ==
    /\ is_initialized = FALSE
    /\ is_updating = FALSE
    /\ update_lock = FALSE
    /\ refreshing = 0
    /\ dataVersion = 0
    /\ pendingPasses = 0
    /\ pendingDispatch = 0
    /\ signalled = {}
    /\ cycle = NoCycle

Entries == {"entry1", "entry2"}

NoTimers == [scan |-> 0, heartbeat |-> 0]

NoOp == [name |-> "init", given |-> None]

\* The manager after __init__; the heartbeat interval is the constructor's
\* optional argument.
InitLifecycle(intervals) ==
    /\ entry = None
    /\ heartbeat_interval \in intervals
    /\ loadTask = "none"
    /\ forwarded = {}
    /\ services = FALSE
    /\ handlers = <<>>
    /\ activeTimers = NoTimers
    /\ registered = NoTimers
    /\ providers = "idle"
    /\ unloaded = {}
    /\ teardown = "none"
    /\ storeKey = "key"
    /\ initOutcome = "none"
    /\ haOp = NoOp

\* A URL: what the template rendered to, and the `?ts=` suffix line 139
\* appends (0: no suffix).
Urls == {"url1", "url2"}

NoUrl == [base |-> None, ts |-> 0]

Rendered(base) == [base |-> base, ts |-> 0]

NoCamCall == [rendered |-> None, requested |-> FALSE, matched |-> FALSE, returned |-> 0]

NoSetup == [entry |-> None, outcome |-> None, returned |-> "none"]

\* Before the host has set up any entry.
InitSetup ==
    /\ lastSetup = NoSetup
    /\ hassData = {}
    /\ setupResult = [e \in Entries |-> "none"]
    /\ coordInitialized = {}
    /\ startListeners = [e \in Entries |-> 0]
    /\ hassRunning = FALSE

\* ShinobiCamera.__init__ (lines 68-87); limit-refetch comes from the
\* device info.
InitCamera(limits) ==
    /\ limit_refetch \in limits
    /\ last_url = NoUrl
    /\ last_image = 0
    /\ requests = 0
    /\ fetchedUrl = None
    /\ camCall = NoCamCall

\* The integration before any operation: no heartbeat interval, and a
\* camera that always fetches.
Init ==
    /\ InitEntityManager
    /\ InitHomeAssistant
    /\ InitLifecycle({None})
    /\ InitSetup
    /\ InitCamera({FALSE})

\* update() with load_entities called before load_devices.
UpdateCallEntitiesFirst(lock, version, devicesRaise, entitiesRaise) ==
    IF lock
    THEN [ lock |-> lock, log |-> <<>>, raised |-> FALSE, loaded |-> 0,
           passes |-> 0, dispatches |-> 0 ]
    ELSE IF entitiesRaise
    THEN [ lock |-> TRUE, log |-> <<"load_entities">>, raised |-> TRUE, loaded |-> version,
           passes |-> 0, dispatches |-> 0 ]
    ELSE IF devicesRaise
    THEN [ lock |-> TRUE, log |-> <<"load_entities", "load_devices">>, raised |-> TRUE,
           loaded |-> version, passes |-> 0, dispatches |-> 0 ]
    ELSE [ lock |-> FALSE,
           log |-> <<"load_entities", "load_devices", "schedule_update", "schedule_dispatch">>,
           raised |-> FALSE, loaded |-> version, passes |-> 1, dispatches |-> 1 ]

\* HomeAssistantManager.update(), called with the data of refresh `version`:
\* returns at once while the lock is set; otherwise sets the lock, loads
\* devices, loads entities, schedules the entity manager's pass and the
\* dispatch, and clears the lock.  load_devices and load_entities are the
\* integration's hooks and may raise; there is no try/finally around them.
UpdateCall(lock, version, devicesRaise, entitiesRaise) ==
    IF lock
    THEN [ lock |-> lock, log |-> <<>>, raised |-> FALSE, loaded |-> 0,
           passes |-> 0, dispatches |-> 0 ]
    ELSE IF devicesRaise
    THEN [ lock |-> TRUE, log |-> <<"load_devices">>, raised |-> TRUE, loaded |-> 0,
           passes |-> 0, dispatches |-> 0 ]
    ELSE IF entitiesRaise
    THEN [ lock |-> TRUE, log |-> <<"load_devices", "load_entities">>, raised |-> TRUE,
           loaded |-> version, passes |-> 0, dispatches |-> 0 ]
    ELSE [ lock |-> FALSE,
           log |-> <<"load_devices", "load_entities", "schedule_update", "schedule_dispatch">>,
           raised |-> FALSE, loaded |-> version, passes |-> 1, dispatches |-> 1 ]

\* async_init whose exception handlers go on to create the loading task.
AsyncInitResultLoadsAnyway(outcome, key) ==
    IF outcome = "ok"
    THEN [task |-> "running", key |-> key, propagated |-> FALSE]
    ELSE IF outcome = "InvalidToken"
    THEN [task |-> "running", key |-> None, propagated |-> FALSE]
    ELSE [task |-> "running", key |-> key, propagated |-> FALSE]

\* async_init (lines 123-145): the entry is stored, the component is
\* initialized and the platform-loading task is created.  InvalidToken
\* clears the key of the stored data; any other exception is only logged.
\* Neither handler re-raises.
AsyncInitResult(outcome, key) ==
    IF outcome = "ok"
    THEN [task |-> "running", key |-> key, propagated |-> FALSE]
    ELSE IF outcome = "InvalidToken"
    THEN [task |-> "none", key |-> None, propagated |-> FALSE]
    ELSE [task |-> "none", key |-> key, propagated |-> FALSE]

AsyncInit ==
    /\ initOutcome = "none"
    /\ \E e \in Entries, outcome \in {"ok", "InvalidToken", "Exception"} :
        \E r \in {AsyncInitResult(outcome, storeKey)} :
            /\ entry' = e
            /\ loadTask' = r.task
            /\ storeKey' = r.key
            /\ initOutcome' = outcome
            /\ haOp' = [name |-> IF r.propagated THEN "async_init raised" ELSE "async_init",
                        given |-> e]
    /\ UNCHANGED <<heartbeat_interval, forwarded, services, handlers, activeTimers,
                   registered, providers, unloaded, teardown>>
    /\ UNCHANGED <<emVars, haVars, appVars>>

\* The platform _async_load_platforms forwards next: PLATFORMS in order.
NextPlatform == DomainOrder[Cardinality(forwarded) + 1]

\* One turn of the loop of lines 150-151: the setup of the next platform is
\* forwarded and awaited.  An exception out of it ends the task.
ForwardPlatform ==
    /\ loadTask = "running"
    /\ forwarded # Platforms
    /\ \E raises \in BOOLEAN :
        IF raises
        THEN /\ loadTask' = "failed"
             /\ UNCHANGED forwarded
        ELSE /\ forwarded' = forwarded \cup {NextPlatform}
             /\ UNCHANGED loadTask
    /\ haOp' = [name |-> "forward_setup", given |-> None]
    /\ UNCHANGED <<entry, heartbeat_interval, services, handlers, activeTimers,
                   registered, providers, unloaded, teardown, storeKey, initOutcome>>
    /\ UNCHANGED <<emVars, haVars, appVars>>

\* async_update_entry that registers the heartbeat timer whether or not an
\* interval is configured.
UpdateEntryResultAlwaysHeartbeat(given, stored, hs, active, reg, heartbeat) ==
    IF given # None
    THEN [entry |-> given, handlers |-> hs, active |-> active, registered |-> reg,
          raised |-> FALSE]
    ELSE [entry |-> stored,
          handlers |-> hs \o <<"scan", "heartbeat">>,
          active |-> [scan |-> active.scan + 1, heartbeat |-> active.heartbeat + 1],
          registered |-> [scan |-> reg.scan + 1, heartbeat |-> reg.heartbeat + 1],
          raised |-> stored = None]

\* async_update_entry (lines 162-188) up to its await.  With an entry the
\* stored entry is replaced.  Without one a scan-interval timer is
\* registered, and a heartbeat timer if a heartbeat interval is configured;
\* the log line then reads the stored entry and raises if that is None.
UpdateEntryResult(given, stored, hs, active, reg, heartbeat) ==
    IF given # None
    THEN [entry |-> given, handlers |-> hs, active |-> active, registered |-> reg,
          raised |-> FALSE]
    ELSE LET kinds == IF heartbeat # None THEN <<"scan", "heartbeat">> ELSE <<"scan">>
             beats == IF heartbeat # None THEN 1 ELSE 0
         IN  [entry |-> stored,
              handlers |-> hs \o kinds,
              active |-> [scan |-> active.scan + 1, heartbeat |-> active.heartbeat + beats],
              registered |-> [scan |-> reg.scan + 1, heartbeat |-> reg.heartbeat + beats],
              raised |-> stored = None]

\* The end of _async_load_platforms (lines 153-157), after the last
\* platform: the services are registered, the manager becomes initialized
\* and async_update_entry() runs and starts the data providers.
LoadPlatforms ==
    /\ loadTask = "running"
    /\ forwarded = Platforms
    /\ services' = TRUE
    /\ is_initialized' = TRUE
    /\ \E r \in {UpdateEntryResult(None, entry, handlers, activeTimers, registered,
                                    heartbeat_interval)} :
        /\ handlers' = r.handlers
        /\ activeTimers' = r.active
        /\ registered' = r.registered
        /\ loadTask' = IF r.raised THEN "failed" ELSE "done"
        /\ providers' = IF r.raised THEN providers ELSE "running"
    /\ haOp' = [name |-> "update_entry", given |-> None]
    /\ UNCHANGED <<entry, heartbeat_interval, forwarded, unloaded, teardown,
                   storeKey, initOutcome>>
    /\ UNCHANGED <<is_updating, update_lock, refreshing, dataVersion,
                   pendingPasses, pendingDispatch, signalled, cycle>>
    /\ UNCHANGED <<emVars, appVars>>

\* async_update_entry(entry), called by the integration when the entry changed.
UpdateEntry ==
    /\ initOutcome # "none"
    /\ teardown = "none"
    /\ \E e \in Entries :
        \E r \in {UpdateEntryResult(e, entry, handlers, activeTimers, registered,
                                    heartbeat_interval)} :
            /\ entry' = r.entry
            /\ handlers' = r.handlers
            /\ activeTimers' = r.active
            /\ registered' = r.registered
            /\ haOp' = [name |-> "update_entry", given |-> e]
    /\ providers' = "running"
    /\ UNCHANGED <<heartbeat_interval, loadTask, forwarded, services, unloaded,
                   teardown, storeKey, initOutcome>>
    /\ UNCHANGED <<emVars, haVars, appVars>>

\* async_update that goes on while the manager is not initialized.
NotInitializedReturnNever(initialized) == FALSE

\* `if not self._is_initialized: return` (lines 234-236).
NotInitializedReturn(initialized) == ~initialized

\* async_update that goes on while another invocation is updating.
SkipUpdatingNever(updating) == FALSE

\* `if self._is_updating: return` (lines 239-241).
SkipUpdating(updating) == updating

\* async_update up to its first await (lines 233-247): the two guards, then
\* _is_updating is set and the refresh of the data providers begins.
\* A return from inside the try does not reach line 256.
AsyncUpdateStart ==
    /\ dataVersion < MaxRefresh
    /\ pendingPasses < MaxTasks /\ pendingDispatch < MaxTasks
    /\ refreshing < MaxTasks
    /\ IF NotInitializedReturn(is_initialized) \/ SkipUpdating(is_updating)
       THEN /\ cycle' = [cycle EXCEPT !.rejected = TRUE]
            /\ UNCHANGED <<is_updating, refreshing>>
       ELSE /\ is_updating' = TRUE
            /\ refreshing' = refreshing + 1
            /\ cycle' = [NoCycle EXCEPT !.passed = TRUE]
    /\ UNCHANGED <<is_initialized, update_lock, dataVersion,
                   pendingPasses, pendingDispatch, signalled>>
    /\ UNCHANGED <<emVars, lcVars, appVars>>

\* The refresh completes and async_update goes on without suspending
\* (lines 247-256): update() runs, an exception out of it is caught and
\* logged, and _is_updating is cleared.
RefreshReturns ==
    /\ refreshing > 0
    /\ \E devicesRaise \in BOOLEAN, entitiesRaise \in BOOLEAN :
        \E u \in {UpdateCall(update_lock, dataVersion + 1, devicesRaise, entitiesRaise)} :
            /\ dataVersion' = dataVersion + 1
            /\ update_lock' = u.lock
            /\ pendingPasses' = pendingPasses + u.passes
            /\ pendingDispatch' = pendingDispatch + u.dispatches
            /\ cycle' = [ passed |-> TRUE, done |-> TRUE, raised |-> u.raised,
                          log |-> <<"refresh">> \o u.log,
                          refreshed |-> dataVersion + 1, loaded |-> u.loaded,
                          rejected |-> cycle.rejected ]
    /\ refreshing' = refreshing - 1
    /\ is_updating' = FALSE
    /\ UNCHANGED <<is_initialized, signalled>>
    /\ UNCHANGED <<emVars, lcVars, appVars>>

\* async_update_data_providers raises: caught and logged at line 250,
\* update() is not called, _is_updating is cleared.
RefreshRaises ==
    /\ refreshing > 0
    /\ refreshing' = refreshing - 1
    /\ is_updating' = FALSE
    /\ cycle' = [cycle EXCEPT !.done = TRUE, !.raised = TRUE]
    /\ UNCHANGED <<is_initialized, update_lock, dataVersion,
                   pendingPasses, pendingDispatch, signalled>>
    /\ UNCHANGED <<emVars, lcVars, appVars>>

\* A task created by entity_manager.update() runs _async_update.
ScheduledPass ==
    /\ pendingPasses > 0
    /\ pendingPasses' = pendingPasses - 1
    /\ \E failInit \in SUBSET Keys, failAdd \in SUBSET Domains :
        RunUpdate(failInit, failAdd)
    /\ UNCHANGED <<is_initialized, is_updating, update_lock, refreshing, dataVersion,
                   pendingDispatch, signalled, cycle>>
    /\ UNCHANGED <<lcVars, appVars>>

\* dispatch_all (lines 258-266): one signal per platform, none while the
\* manager is not initialized.
DispatchSignals(initialized, sent) ==
    IF initialized THEN sent \cup Platforms ELSE sent

\* A task created by update() runs dispatch_all.
DispatchAll ==
    /\ pendingDispatch > 0
    /\ pendingDispatch' = pendingDispatch - 1
    /\ signalled' = DispatchSignals(is_initialized, signalled)
    /\ UNCHANGED <<is_initialized, is_updating, update_lock, refreshing, dataVersion,
                   pendingPasses, cycle>>
    /\ UNCHANGED <<emVars, lcVars, appVars>>

\* dispatch_all awaited directly: it is a public coroutine of the manager.
DispatchAllCall ==
    /\ signalled' = DispatchSignals(is_initialized, signalled)
    /\ UNCHANGED <<is_initialized, is_updating, update_lock, refreshing, dataVersion,
                   pendingPasses, pendingDispatch, cycle>>
    /\ UNCHANGED <<emVars, lcVars, appVars>>

NextPolling ==
    \/ AsyncInit
    \/ ForwardPlatform
    \/ LoadPlatforms
    \/ AsyncUpdateStart
    \/ RefreshReturns
    \/ RefreshRaises
    \/ ScheduledPass
    \/ DispatchAll
    \/ DispatchAllCall

SpecPolling == Init /\ [][NextPolling]_vars

----------------------------------------------------------------------------
(* HomeAssistantManager: loading and teardown *)

\* Handlers of one kind in the handler list.
CountKind(hs, kind) == Cardinality({i \in 1..Len(hs) : hs[i] = kind})

\* The loop of lines 193-195: every handler in the list is called, which
\* cancels its timer.
CancelledTimers(hs, active) ==
    [scan |-> active.scan - CountKind(hs, "scan"),
     heartbeat |-> active.heartbeat - CountKind(hs, "heartbeat")]

\* async_unload up to its await (lines 190-199): the handlers are called and
\* the list is cleared.  `caller` is "unload" when the integration calls
\* async_unload itself and "remove" when async_remove awaits it (line 204).
UnloadBegin(caller) ==
    /\ initOutcome # "none"
    /\ teardown = "none"
    /\ activeTimers' = CancelledTimers(handlers, activeTimers)
    /\ handlers' = <<>>
    /\ teardown' = IF caller = "remove" THEN "remove_stopping" ELSE "unload_stopping"
    /\ haOp' = [name |-> "cancel_timers", given |-> None]
    /\ UNCHANGED <<entry, heartbeat_interval, loadTask, forwarded, services, registered,
                   providers, unloaded, storeKey, initOutcome>>

\* The integration calls async_unload (the host is stopping).
UnloadStart ==
    /\ UnloadBegin("unload")
    /\ UNCHANGED <<emVars, haVars, appVars>>

\* async_remove up to its first suspension (lines 201-204): it awaits
\* async_unload, which runs to its own await.
RemoveStart ==
    /\ UnloadBegin("remove")
    /\ UNCHANGED <<emVars, haVars, appVars>>

\* async_stop_data_providers returns (line 199): async_unload is complete,
\* and async_remove goes on to the platforms.
StopProviders ==
    /\ teardown \in {"unload_stopping", "remove_stopping"}
    /\ providers' = "stopped"
    /\ teardown' = IF teardown = "unload_stopping" THEN "unloaded" ELSE "remove_platforms"
    /\ haOp' = [name |-> "async_unload", given |-> None]
    /\ UNCHANGED <<entry, heartbeat_interval, loadTask, forwarded, services, handlers,
                   activeTimers, registered, unloaded, storeKey, initOutcome>>
    /\ UNCHANGED <<emVars, haVars, appVars>>

\* One turn of the loop of lines 208-209: the unload of the next platform is
\* forwarded and awaited; after the last one the removal of the devices is
\* awaited (line 211).
UnloadPlatform ==
    /\ teardown = "remove_platforms"
    /\ IF unloaded # Platforms
       THEN /\ unloaded' = unloaded \cup {DomainOrder[Cardinality(unloaded) + 1]}
            /\ UNCHANGED teardown
       ELSE /\ teardown' = "remove_devices"
            /\ UNCHANGED unloaded
    /\ haOp' = [name |-> "forward_unload", given |-> None]
    /\ UNCHANGED <<entry, heartbeat_interval, loadTask, forwarded, services, handlers,
                   activeTimers, registered, providers, storeKey, initOutcome>>
    /\ UNCHANGED <<emVars, haVars, appVars>>

\* The end of async_remove (lines 213-216): the stored entry and the
\* entities mapping are cleared.
RemoveFinish ==
    /\ teardown = "remove_devices"
    /\ teardown' = "removed"
    /\ entry' = None
    /\ entities' = <<>>
    /\ order' = <<>>
    /\ haOp' = [name |-> "async_remove", given |-> None]
    /\ UNCHANGED <<heartbeat_interval, loadTask, forwarded, services, handlers,
                   activeTimers, registered, providers, unloaded, storeKey, initOutcome>>
    /\ kept' = {}
    /\ UNCHANGED <<registry, built, handed, lastOp, lastCall, lastPass>>
    /\ UNCHANGED <<haVars, appVars>>

\* set_entity called by the integration for the camera entity while the
\* manager is alive.
EntitySet ==
    /\ initOutcome = "ok"
    /\ teardown # "removed"
    /\ \E entity_description \in {e \in CallDescriptions : e.key = "k1" /\ e.name = "n1"} :
        SetEntityCall(KeyDomain[entity_description.key], BaseData, entity_description,
                      [isNone |-> TRUE, items |-> <<>>])
    /\ haOp' = [name |-> "set_entity", given |-> None]
    /\ UNCHANGED <<entry, heartbeat_interval, loadTask, forwarded, services, handlers,
                   activeTimers, registered, providers, unloaded, teardown, storeKey,
                   initOutcome>>
    /\ UNCHANGED <<haVars, appVars>>

\* A manager constructed with or without a heartbeat interval.
InitManager ==
    /\ InitEntityManager
    /\ InitHomeAssistant
    /\ InitLifecycle({None, "interval"})
    /\ InitSetup
    /\ InitCamera({FALSE})

NextLifecycle ==
    \/ AsyncInit
    \/ ForwardPlatform
    \/ LoadPlatforms
    \/ UpdateEntry
    \/ UnloadStart
    \/ RemoveStart
    \/ StopProviders
    \/ UnloadPlatform
    \/ RemoveFinish
    \/ EntitySet

SpecLifecycle == InitManager /\ [][NextLifecycle]_vars

----------------------------------------------------------------------------
(* Entry setup (__init__.py) *)

\* How the steps of async_setup_entry end: an exception before the
\* coordinator exists (decrypt or the config manager's initialize), a
\* LoginError there, a config manager that is not initialized, an
\* exception out of coordinator.initialize, or no fault.
SetupOutcomes == {"ok", "raises", "LoginError", "not_initialized", "initialize_raises"}

\* async_setup_entry (lines 27-69) for entry e.  The coordinator is stored
\* in hass.data at line 44, before coordinator.initialize is awaited or the
\* start listener is subscribed; both except clauses only log.
SetupEntryResult(outcome, running, data, inited, listeners, e) ==
    IF outcome \in {"raises", "LoginError", "not_initialized"}
    THEN [data |-> data, inited |-> inited, listeners |-> listeners, returned |-> "false"]
    ELSE IF ~running
    THEN [data |-> data \cup {e}, inited |-> inited \ {e},
          listeners |-> [listeners EXCEPT ![e] = 1], returned |-> "true"]
    ELSE IF outcome = "initialize_raises"
    THEN [data |-> data \cup {e}, inited |-> inited \ {e},
          listeners |-> [listeners EXCEPT ![e] = 0], returned |-> "false"]
    ELSE [data |-> data \cup {e}, inited |-> inited \cup {e},
          listeners |-> [listeners EXCEPT ![e] = 0], returned |-> "true"]

\* The host sets up an entry that is not loaded.
AsyncSetupEntry ==
    /\ \E e \in Entries, outcome \in SetupOutcomes :
        /\ setupResult[e] # "true"
        /\ \E r \in {SetupEntryResult(outcome, hassRunning, hassData, coordInitialized,
                                        startListeners, e)} :
            /\ hassData' = r.data
            /\ coordInitialized' = r.inited
            /\ startListeners' = r.listeners
            /\ setupResult' = [setupResult EXCEPT ![e] = r.returned]
            /\ lastSetup' = [entry |-> e, outcome |-> outcome, returned |-> r.returned]
    /\ UNCHANGED hassRunning
    /\ UNCHANGED <<emVars, haVars, lcVars, camVars>>

\* async_unload_entry (lines 72-87) for a loaded entry: the coordinator is
\* terminated and its hass.data item deleted.
AsyncUnloadEntry ==
    /\ \E e \in Entries :
        /\ setupResult[e] = "true"
        /\ hassData' = hassData \ {e}
        /\ coordInitialized' = coordInitialized \ {e}
        /\ startListeners' = [startListeners EXCEPT ![e] = 0]
        /\ setupResult' = [setupResult EXCEPT ![e] = "none"]
    /\ lastSetup' = NoSetup
    /\ UNCHANGED hassRunning
    /\ UNCHANGED <<emVars, haVars, lcVars, camVars>>

\* The host starts: EVENT_HOMEASSISTANT_START fires every listen-once
\* subscription, which initializes its coordinator.
HassStart ==
    /\ ~hassRunning
    /\ hassRunning' = TRUE
    /\ coordInitialized' = coordInitialized \cup {e \in Entries : startListeners[e] > 0}
    /\ startListeners' = [e \in Entries |-> 0]
    /\ lastSetup' = NoSetup
    /\ UNCHANGED <<hassData, setupResult>>
    /\ UNCHANGED <<emVars, haVars, lcVars, camVars>>

NextSetup ==
    \/ AsyncSetupEntry
    \/ AsyncUnloadEntry
    \/ HassStart

SpecSetup == Init /\ [][NextSetup]_vars

----------------------------------------------------------------------------
(* The camera's still image (camera.py) *)

\* Bound of the exploration: HTTP requests the camera issues.
MaxRequests == 4

\* How one call goes: the template fails to render, or it renders and the
\* request (if one is made) succeeds, times out or fails.
ImageOutcomes == {"ok", "TemplateError", "TimeoutError", "ClientError"}

\* Line 139: `url = f"{url}?ts={datetime.now().timestamp()}"`; the clock
\* reading is a positive number.
WithTimestamp(url, now) == [base |-> url.base, ts |-> now]

\* async_camera_image (lines 125-153) with the template rendering to `url`
\* at clock reading `now`.  Line 152 stores the URL the request was sent
\* to, which is the one line 139 has built.
CameraImageResult(url, outcome, now, limit, lastUrl, lastImage) ==
    IF outcome = "TemplateError"
    THEN [last_url |-> lastUrl, last_image |-> lastImage, requested |-> FALSE,
          fetched |-> FALSE, returned |-> lastImage]
    ELSE IF url = lastUrl /\ limit
    THEN [last_url |-> lastUrl, last_image |-> lastImage, requested |-> FALSE,
          fetched |-> FALSE, returned |-> lastImage]
    ELSE IF outcome \in {"TimeoutError", "ClientError"}
    THEN [last_url |-> lastUrl, last_image |-> lastImage, requested |-> TRUE,
          fetched |-> FALSE, returned |-> lastImage]
    ELSE [last_url |-> WithTimestamp(url, now), last_image |-> now, requested |-> TRUE,
          fetched |-> TRUE, returned |-> now]

\* One call of async_camera_image.  The body of request n is image n, and
\* the clock reads n when request n is built.
CameraImage ==
    /\ requests < MaxRequests
    /\ \E base \in Urls, outcome \in ImageOutcomes :
        \E r \in {CameraImageResult(Rendered(base), outcome, requests + 1, limit_refetch,
                                     last_url, last_image)} :
            /\ last_url' = r.last_url
            /\ last_image' = r.last_image
            /\ requests' = IF r.requested THEN requests + 1 ELSE requests
            /\ fetchedUrl' = IF r.fetched THEN base ELSE fetchedUrl
            /\ camCall' = [ rendered |-> IF outcome = "TemplateError" THEN None ELSE base,
                            requested |-> r.requested,
                            matched |-> outcome # "TemplateError" /\ base = fetchedUrl,
                            returned |-> r.returned ]
    /\ UNCHANGED limit_refetch
    /\ UNCHANGED <<emVars, haVars, lcVars, setupVars>>

\* A camera built from device info with or without limit-refetch.
InitAnyCamera ==
    /\ InitEntityManager
    /\ InitHomeAssistant
    /\ InitLifecycle({None})
    /\ InitSetup
    /\ InitCamera({FALSE, TRUE})

NextCamera ==
    \/ CameraImage

SpecCamera == InitAnyCamera /\ [][NextCamera]_vars

----------------------------------------------------------------------------
(* State machine of the entity manager on its own *)

SetEntity ==
    /\ \E entity_description \in CallDescriptions, destructors \in DestructorLists :
        \E data \in CallData[entity_description.key] :
            SetEntityCall(KeyDomain[entity_description.key], data, entity_description, destructors)
    /\ UNCHANGED <<haVars, lcVars, appVars>>

UpdatePass ==
    /\ \E failInit \in SUBSET Keys, failAdd \in SUBSET Domains :
        RunUpdate(failInit, failAdd)
    /\ UNCHANGED <<haVars, lcVars, appVars>>

Next ==
    \/ SetEntity
    \/ UpdatePass

Spec == Init /\ [][Next]_vars

\* The entity manager when no destructor is given and nothing raises:
\* set_entity calls without a True destructor, and update passes in which
\* neither an initializer nor a callback raises.  Every polling cycle of
\* the coordinator reloads the entities (set_entity calls) and schedules an
\* update pass, so both keep happening.
SetEntityKept ==
    /\ \E entity_description \in CallDescriptions,
          destructors \in {d \in DestructorLists : ~HasTrueDestructor(d)} :
        \E data \in CallData[entity_description.key] :
            SetEntityCall(KeyDomain[entity_description.key], data, entity_description, destructors)
    /\ UNCHANGED <<haVars, lcVars, appVars>>

UpdatePassNoFault ==
    /\ RunUpdate({}, {})
    /\ UNCHANGED <<haVars, lcVars, appVars>>

NextLive ==
    \/ SetEntityKept
    \/ UpdatePassNoFault

SpecLive ==
    Init /\ [][NextLive]_vars /\ WF_vars(UpdatePassNoFault) /\ WF_vars(SetEntityKept)

----------------------------------------------------------------------------
(* Properties of set_entity *)

\* The key of the set_entity call that made the step.
CallKey == lastCall'.entity_description.key

\* A step that is a set_entity call without a True destructor.
PlainCallStep == lastOp' = "set_entity" /\ ~lastCall'.destructor

\* A step that is a set_entity call with a True destructor.
DestructorCallStep == lastOp' = "set_entity" /\ lastCall'.destructor

\* The given state, attributes, device name, description or (supplied)
\* details differ from those of the stored record.
GivenDiffers(entity, call) ==
    \/ entity.state # call.data.state
    \/ entity.attributes # call.data.attributes
    \/ entity.device_name # call.data.device_name
    \/ entity.entity_description # call.entity_description
    \/ (call.data.details # None /\ entity.details # call.data.details)

\* The record holds the state, attributes, device name and details of the call.
HoldsGiven(entity, call) ==
    /\ entity.state = call.data.state
    /\ entity.attributes = call.data.attributes
    /\ entity.device_name = call.data.device_name
    /\ entity.details = call.data.details

\* C1: set_entity for a key that is not in the mapping, without a True
\* destructor, leaves a record under that key with status CREATED and the
\* given domain, state, attributes, device name and details.
C1_NewKeyCreated ==
    [][ (PlainCallStep /\ CallKey \notin DOMAIN entities)
        => /\ CallKey \in DOMAIN entities'
           /\ entities'[CallKey].status = CREATED
           /\ entities'[CallKey].domain = lastCall'.domain
           /\ HoldsGiven(entities'[CallKey], lastCall') ]_vars

C1_Witness ==
    /\ lastOp = "set_entity"
    /\ ~lastCall.existed /\ ~lastCall.destructor
    /\ lastCall.entity_description.key \in DOMAIN entities
    /\ entities[lastCall.entity_description.key].status = CREATED
    /\ lastCall.data.details = "x2"

C3_DestructorDeletes ==
    [][ DestructorCallStep
        => IF CallKey \in DOMAIN entities
           THEN CallKey \in DOMAIN entities' /\ entities'[CallKey].status = DELETED
           ELSE CallKey \notin DOMAIN entities' ]_vars

\* C7: set_entity for an existing key, with every compared field equal and
\* without a True destructor, leaves status, state, attributes, device name
\* and details of the record as they were.
C7_EqualCallChangesNothing ==
    [][ (PlainCallStep /\ CallKey \in DOMAIN entities
           /\ ~GivenDiffers(entities[CallKey], lastCall'))
        => /\ CallKey \in DOMAIN entities'
           /\ entities'[CallKey].status = entities[CallKey].status
           /\ entities'[CallKey].state = entities[CallKey].state
           /\ entities'[CallKey].attributes = entities[CallKey].attributes
           /\ entities'[CallKey].device_name = entities[CallKey].device_name
           /\ entities'[CallKey].details = entities[CallKey].details ]_vars

----------------------------------------------------------------------------
(* Properties of the update pass *)

StatusKeys(status) == {k \in DOMAIN entities : entities[k].status = status}

\* C4: after an update pass no DELETED record remains in the mapping, and
\* the records that were DELETED when it started have no registry entry.
C4_PassRemovesDeleted ==
    lastOp = "update"
        => /\ StatusKeys(DELETED) = {}
           /\ lastPass.deletedAtStart \cap registry = {}

\* C5: every record stored with status CREATED eventually has a component
\* built for it and reaches READY.
C5_CreatedBecomesReady ==
    \A k \in Keys :
        (k \in StatusKeys(CREATED)) ~> (k \in StatusKeys(READY) /\ k \in built)

\* C6: a READY record had its component handed to the add-devices
\* callback, and no record's component is handed over more than once.
C6_ReadyWasHanded ==
    \A k \in Keys :
        /\ handed[k] <= 1
        /\ (k \in StatusKeys(READY) => handed[k] = 1)

\* C8: _async_update propagates no exception; an exception while adding
\* components is logged and the delete step of the same pass still runs
\* (it removes a DELETED record if there is one); an exception while
\* deleting is logged.
C8_PassCatchesAll ==
    lastOp = "update"
        => /\ ~lastPass.propagated
           /\ lastPass.addRaised
                => /\ lastPass.deleteRan
                   /\ lastPass.log # <<>> /\ lastPass.log[1] = "Failed to add component"
                   /\ lastPass.deletedAtStart # {}
                        => lastPass.deletedAtStart \ DOMAIN entities # {}
           /\ lastPass.deleteRaised
                => lastPass.log # <<>> /\ lastPass.log[Len(lastPass.log)] = "Failed to update"

C8_Witness ==
    /\ lastOp = "update"
    /\ lastPass.addRaised /\ lastPass.deleteRaised
    /\ lastPass.deletedAtStart \ DOMAIN entities # {}

----------------------------------------------------------------------------
(* Properties of the polling cycle *)

IsPrefix(s, t) == Len(s) <= Len(t) /\ \A i \in 1..Len(s) : s[i] = t[i]

\* C9: an exception in one cycle does not stop polling: a later cycle that
\* passes the guards and in which nothing raises refreshes, reloads devices
\* and entities and schedules the entity manager's pass.
C9_NextCycleComplete ==
    (cycle.passed /\ cycle.done /\ ~cycle.raised) => cycle.log = FullCycle

\* C10: in an async_update invocation that passes its guards the steps are
\* taken in the order refresh, load_devices, load_entities, schedule the
\* update pass, schedule the dispatch; the entities are loaded from the
\* data of the refresh of the same cycle.
C10_CycleOrder ==
    /\ IsPrefix(cycle.log, FullCycle)
    /\ (cycle.done /\ cycle.loaded # 0) => cycle.loaded = cycle.refreshed /\ cycle.loaded = dataVersion

C10_Witness ==
    /\ cycle.passed /\ cycle.done /\ ~cycle.raised
    /\ cycle.log = FullCycle
    /\ cycle.refreshed = 2
    /\ pendingPasses > 0 /\ pendingDispatch > 0

----------------------------------------------------------------------------
(* Properties of loading and teardown *)

\* C11: the call of async_update_entry() that ends platform loading
\* registers exactly one scan-interval timer, and one heartbeat timer if and
\* only if a heartbeat interval is configured; a call with an entry stores
\* that entry and registers no timer.
C11_TimersPerEntryUpdate ==
    [][ /\ (haOp'.name = "update_entry" /\ haOp'.given = None) =>
            /\ registered' = [scan |-> 1,
                              heartbeat |-> IF heartbeat_interval # None THEN 1 ELSE 0]
            /\ activeTimers'.scan = activeTimers.scan + 1
            /\ activeTimers'.heartbeat =
                   activeTimers.heartbeat + IF heartbeat_interval # None THEN 1 ELSE 0
            /\ Len(handlers') = Len(handlers) + IF heartbeat_interval # None THEN 2 ELSE 1
        /\ (haOp'.name = "update_entry" /\ haOp'.given # None) =>
            /\ entry' = haOp'.given
            /\ registered' = registered
            /\ activeTimers' = activeTimers
            /\ handlers' = handlers ]_vars

C11_Witness ==
    /\ haOp = [name |-> "update_entry", given |-> None]
    /\ heartbeat_interval # None
    /\ activeTimers = [scan |-> 1, heartbeat |-> 1]
    /\ handlers = <<"scan", "heartbeat">>

\* C12: the manager is initialized only after _async_load_platforms has
\* forwarded the setup of every platform and registered the services; until
\* then no async_update call has started a refresh, loaded or scheduled
\* anything for the entities, and no dispatch_all has sent a signal.
C12_NothingBeforeInitialized ==
    /\ is_initialized => (forwarded = Platforms /\ services)
    /\ ~is_initialized =>
        /\ refreshing = 0
        /\ ~is_updating
        /\ dataVersion = 0
        /\ cycle.log = <<>> /\ ~cycle.passed
        /\ pendingPasses = 0 /\ pendingDispatch = 0
        /\ lastOp = "init" /\ entities = <<>>
        /\ signalled = {}

C12_Witness ==
    /\ ~is_initialized
    /\ loadTask = "running"
    /\ forwarded = Platforms
    /\ cycle.rejected

\* C14: at most one async_update invocation is inside
\* async_update_data_providers; _is_updating is set exactly while that
\* invocation is there, so an invocation that returns at the guard neither
\* refreshes nor clears the flag, and the flag is cleared when the invocation
\* that set it ends, whether the refresh returned or raised.
C14_SingleRefresh ==
    /\ refreshing <= 1
    /\ is_updating <=> refreshing = 1

C14_Witness ==
    /\ is_updating
    /\ refreshing = 1
    /\ cycle.passed /\ ~cycle.done
    /\ cycle.rejected

\* async_unload has returned, called on its own or awaited by async_remove.
UnloadCompleted ==
    teardown \in {"unloaded", "remove_platforms", "remove_devices", "removed"}

\* C13: when async_remove completes, every registered timer has been
\* cancelled and the handler list is empty, the data providers are stopped,
\* the unload of every platform was forwarded, the stored entry is None and
\* the entities mapping is empty; no platform is unloaded before the
\* handlers were called.
C13_RemoveLeavesNothing ==
    /\ unloaded # {} => UnloadCompleted
    /\ haOp.name = "async_remove" =>
        /\ activeTimers = NoTimers
        /\ handlers = <<>>
        /\ providers = "stopped"
        /\ unloaded = Platforms
        /\ entry = None
        /\ entities = <<>>

\* C15: once async_unload has completed, no scan-interval or heartbeat
\* timer of the manager is active, however the platform-loading task
\* interleaves with it.
C15_NoTimerAfterUnload ==
    UnloadCompleted => activeTimers = NoTimers

\* C17: after InvalidToken in async_init the key in the store is None, the
\* platform-loading task was not created, the manager is not initialized
\* and no timer was registered; after any other exception the task was not
\* created either and the store is as it was; async_init raised in
\* neither case.
C17_FailedInit ==
    /\ initOutcome = "InvalidToken" =>
        /\ storeKey = None
        /\ loadTask = "none" /\ forwarded = {} /\ ~services
        /\ ~is_initialized
        /\ registered = NoTimers
    /\ initOutcome = "Exception" =>
        /\ storeKey = "key"
        /\ loadTask = "none" /\ forwarded = {} /\ ~services
    /\ haOp.name # "async_init raised"

C17_Witness ==
    /\ initOutcome = "InvalidToken"
    /\ storeKey = None
    /\ haOp.name = "update_entry"

----------------------------------------------------------------------------
(* Properties of set_entity followed by the update pass *)

----------------------------------------------------------------------------
(* Properties of the entry setup *)

\* C18: an entry has a coordinator in hass.data[DOMAIN] if and only if its
\* async_setup_entry returned True; and then the coordinator is initialized
\* or has exactly one subscription to the host start event.
C18_RegisteredIffSetUp ==
    /\ \A e \in Entries :
        /\ e \in hassData <=> setupResult[e] = "true"
        /\ setupResult[e] = "true" =>
            (e \in coordInitialized /\ startListeners[e] = 0)
            \/ (e \notin coordInitialized /\ startListeners[e] = 1)
    /\ lastSetup.returned = "false" => lastSetup.entry \notin hassData

----------------------------------------------------------------------------
(* Properties of the camera *)

\* C19: with limit-refetch enabled, a call whose template renders to the
\* URL of the last successful fetch issues no request and returns the
\* cached image.
C19_CachedWhenUnchanged ==
    (limit_refetch /\ camCall.matched) =>
        (~camCall.requested /\ camCall.returned = last_image)

====
